---- MODULE Spec2Model ----
(***************************************************************************)
(* The native whiteboard screen (Whiteboard.tsx): the session URI that     *)
(* render hands to the embedded surface, the navigation guard, the message *)
(* bridge and the load-failure reporter.                                   *)
(*                                                                         *)
(* Strings that end up inside a URI are sequences of one-character         *)
(* strings, so that concatenation, percent-decoding and exact equality are *)
(* computed and not assumed.  Payload strings of the message channel are   *)
(* plain strings; they never meet the URI strings.                         *)
(***************************************************************************)
EXTENDS Naturals, Sequences, FiniteSets

VARIABLES props, sourceUri, uriAtMount, nav, msgs, calls, host, dialogs,
          loadErrors

vars == <<props, sourceUri, uriAtMount, nav, msgs, calls, host, dialogs,
          loadErrors>>

-----------------------------------------------------------------------------
(* Bounds of the model.                                                    *)

MaxMessages == 2

MaxLoadErrors == 2

-----------------------------------------------------------------------------
(* JavaScript values.                                                      *)

\* undefined, for a value that is otherwise a character sequence.  The
\* token is not a character, so no string equals it.
Undefined == <<"<undefined>">>

EmptyStr == <<>>

\* props.conference when getCurrentConference(state) finds none.
NoConference == "undefined"

TheConference == "conference"

\* A collabDetails route parameter that is absent.
NoCollabDetails == [present |-> FALSE, roomId |-> EmptyStr, roomKey |-> EmptyStr]

CollabDetailsOf(id, key) == [present |-> TRUE, roomId |-> id, roomKey |-> key]

-----------------------------------------------------------------------------
(* safeDecodeURIComponent (base/util/uri): percent-decoding that never     *)
(* throws.  The escape table covers the escapes that occur in the inputs   *)
(* below; "%" followed by anything else is malformed.                      *)

URIError == <<"<URIError>">>

EscapeTable ==
    [p \in {<<"4", "1">>, <<"2", "0">>, <<"2", "5">>} |->
        CASE p = <<"4", "1">> -> "A"
          [] p = <<"2", "0">> -> " "
          [] p = <<"2", "5">> -> "%"]

RECURSIVE decodeURIComponent(_)
decodeURIComponent(s) ==
    IF s = <<>> THEN <<>>
    ELSE IF Head(s) # "%"
         THEN LET rest == decodeURIComponent(Tail(s))
              IN  IF rest = URIError THEN URIError ELSE <<Head(s)>> \o rest
         ELSE IF Len(s) < 3 \/ <<s[2], s[3]>> \notin DOMAIN EscapeTable
              THEN URIError
              ELSE LET rest == decodeURIComponent(SubSeq(s, 4, Len(s)))
                   IN  IF rest = URIError THEN URIError
                       ELSE <<EscapeTable[<<s[2], s[3]>>]>> \o rest

safeDecodeURIComponent(text) ==
    IF text = Undefined THEN Undefined
    ELSE LET d == decodeURIComponent(text)
         IN  IF d = URIError THEN text ELSE d

-----------------------------------------------------------------------------
(* getWhiteboardInfoForURIString (whiteboard/functions): the resolver.     *)
(* Without a location or a usable server URL there is no URI (undefined).  *)
(* Otherwise the URI names the location, "join" with the credentials or    *)
(* "create" without them, the server and, when there is one, the name.     *)

getWhiteboardInfoForURIString(locationHref, collabServerUrl, collabDetails, localParticipantName) ==
    IF locationHref = EmptyStr \/ collabServerUrl \in {Undefined, EmptyStr}
    THEN Undefined
    ELSE locationHref
         \o (IF collabDetails.present
             THEN <<"#", "j", "=">> \o collabDetails.roomId \o <<",">>
                  \o collabDetails.roomKey
             ELSE <<"#", "c">>)
         \o <<"&", "s", "=">> \o collabServerUrl
         \o (IF localParticipantName \in {Undefined, EmptyStr}
             THEN <<>>
             ELSE <<"&", "n", "=">> \o localParticipantName)

-----------------------------------------------------------------------------
(* Whiteboard.render: the source URI of the embedded surface.              *)

renderNoSentinel(p) ==
    getWhiteboardInfoForURIString(
        p.locationHref,
        safeDecodeURIComponent(p.route.collabServerUrl),
        p.route.collabDetails,
        safeDecodeURIComponent(p.route.localParticipantName))

render(p) ==
    LET collabServerUrl == safeDecodeURIComponent(p.route.collabServerUrl)
        localParticipantName ==
            safeDecodeURIComponent(p.route.localParticipantName)
        collabDetails == p.route.collabDetails
        uri == getWhiteboardInfoForURIString(p.locationHref, collabServerUrl,
                                             collabDetails, localParticipantName)
    IN  IF uri = Undefined THEN EmptyStr ELSE uri

(* Whiteboard._onNavigate: the URI the guard compares the request with,    *)
(* and its decision.                                                       *)

GuardUriFromHost(p) ==
    getWhiteboardInfoForURIString(
        p.locationHref,
        p.route.collabServerUrl,
        IF host.kind = "object"
        THEN CollabDetailsOf(<<host.roomId.v>>, <<host.roomKey.v>>)
        ELSE p.route.collabDetails,
        p.route.localParticipantName)

GuardUri(p) ==
    getWhiteboardInfoForURIString(p.locationHref, p.route.collabServerUrl,
                                  p.route.collabDetails,
                                  p.route.localParticipantName)

_onNavigateSentinel(url, p) ==
    url = (IF GuardUri(p) = Undefined THEN EmptyStr ELSE GuardUri(p))

_onNavigate(url, p) == url = GuardUri(p)

-----------------------------------------------------------------------------
(* The message channel.  A parsed payload is described by its JSON kind    *)
(* and by what reading roomId, roomKey and one further field off it gives. *)

JSUndefined == [t |-> "undefined", v |-> ""]

JSString(s) == [t |-> "string", v |-> s]

JSObject(id, key, extra) ==
    [kind |-> "object", roomId |-> id, roomKey |-> key, extra |-> extra]

JSPrimitive(kind) ==
    [kind |-> kind, roomId |-> JSUndefined, roomKey |-> JSUndefined,
     extra |-> JSUndefined]

\* JavaScript truthiness of a value read off the payload: undefined, null,
\* false, 0 and '' are falsy; true, other numbers, non-empty strings,
\* objects and arrays are truthy.
Truthy(x) ==
    CASE x.t = "undefined" -> FALSE
      [] x.t = "null" -> FALSE
      [] x.t = "boolean" -> x.v = "true"
      [] x.t = "string" -> x.v # ""
      [] x.t = "number" -> x.v \notin {"0", "-0", "NaN"}
      [] x.t \in {"object", "array"} -> TRUE

RawBoth == "{\"roomId\":\"r1\",\"roomKey\":\"k1\"}"

RawBothExtra == "{\"roomId\":\"r2\",\"roomKey\":\"k2\",\"admin\":\"yes\"}"

RawNoKey == "{\"roomId\":\"r1\"}"

RawEmptyId == "{\"roomId\":\"\",\"roomKey\":\"k1\"}"

RawNull == "null"

RawNotJson == "not json"

Payloads == {RawBoth, RawBothExtra, RawNoKey, RawEmptyId, RawNull, RawNotJson}

\* JSON.parse on the payloads above: the value, or a SyntaxError thrown.
JSONParse(data) ==
    CASE data = RawBoth ->
            [threw |-> FALSE,
             value |-> JSObject(JSString("r1"), JSString("k1"), JSUndefined)]
      [] data = RawBothExtra ->
            [threw |-> FALSE,
             value |-> JSObject(JSString("r2"), JSString("k2"), JSString("yes"))]
      [] data = RawNoKey ->
            [threw |-> FALSE,
             value |-> JSObject(JSString("r1"), JSUndefined, JSUndefined)]
      [] data = RawEmptyId ->
            [threw |-> FALSE,
             value |-> JSObject(JSString(""), JSString("k1"), JSUndefined)]
      [] data = RawNull -> [threw |-> FALSE, value |-> JSPrimitive("null")]
      [] OTHER -> [threw |-> TRUE, value |-> JSPrimitive("undefined")]

\* The fixed topic key of the metadata channel (whiteboard/constants).
WHITEBOARD_ID == "whiteboard"

\* The store before any credentials were committed.
NoHostDetails == JSPrimitive("undefined")

\* One call made on an external interface, tagged with the message that
\* caused it.
DispatchCall(id, collabDetails) ==
    [op |-> "setupWhiteboard", msg |-> id, key |-> "",
     collabServerUrl |-> Undefined, collabDetails |-> collabDetails]

SetMetadataCall(id, key, value) ==
    [op |-> "setMetadata", msg |-> id, key |-> key,
     collabServerUrl |-> value.collabServerUrl,
     collabDetails |-> value.collabDetails]

\* if (collabDetails?.roomId && collabDetails?.roomKey)
SchemaGateEither(collabDetails) ==
    Truthy(collabDetails.roomId) \/ Truthy(collabDetails.roomKey)

SchemaGate(collabDetails) ==
    Truthy(collabDetails.roomId) /\ Truthy(collabDetails.roomKey)

\* { collabServerUrl, collabDetails }, collabServerUrl being the prop that
\* mapStateToProps supplies.
BroadcastValueFromRoute(p, collabDetails) ==
    [collabServerUrl |-> safeDecodeURIComponent(p.route.collabServerUrl),
     collabDetails |-> collabDetails]

BroadcastValue(p, collabDetails) ==
    [collabServerUrl |-> p.collabServerUrl, collabDetails |-> collabDetails]

\* conference?.getMetadataHandler().setMetadata(WHITEBOARD_ID, {...})
BroadcastAlways(log, id, p, collabDetails) ==
    Append(log, SetMetadataCall(id, WHITEBOARD_ID,
                                BroadcastValue(p, collabDetails)))

BroadcastOnce(log, id, p, collabDetails) ==
    IF p.conference = NoConference
       \/ \E i \in DOMAIN log :
             /\ log[i].op = "setMetadata"
             /\ log[i].collabDetails = collabDetails
    THEN log
    ELSE Append(log, SetMetadataCall(id, WHITEBOARD_ID,
                                     BroadcastValue(p, collabDetails)))

Broadcast(log, id, p, collabDetails) ==
    IF p.conference = NoConference
    THEN log
    ELSE Append(log, SetMetadataCall(id, WHITEBOARD_ID,
                                     BroadcastValue(p, collabDetails)))

\* The two calls of an accepted message, in the order the handler makes them.
BroadcastThenCommit(log, id, p, collabDetails) ==
    Append(Broadcast(log, id, p, collabDetails),
           DispatchCall(id, collabDetails))

Accept(log, id, p, collabDetails) ==
    Broadcast(Append(log, DispatchCall(id, collabDetails)), id, p,
              collabDetails)

\* Whiteboard._onMessage: whether it threw, and the calls log it leaves.
_onMessage(log, id, p, data) ==
    LET parsed == JSONParse(data)
    IN  IF parsed.threw
        THEN [threw |-> TRUE, calls |-> log]
        ELSE IF SchemaGate(parsed.value)
             THEN [threw |-> FALSE, calls |-> Accept(log, id, p, parsed.value)]
             ELSE [threw |-> FALSE, calls |-> log]

\* The store's reducer for setupWhiteboard: the committed credentials
\* replace the ones held.
RECURSIVE Reduce(_, _)
Reduce(h, newCalls) ==
    IF newCalls = <<>> THEN h
    ELSE Reduce(IF Head(newCalls).op = "setupWhiteboard"
                THEN Head(newCalls).collabDetails
                ELSE h,
                Tail(newCalls))

\* Whiteboard._onError: this.props.dispatch(openDialog(WhiteboardErrorDialog))
_onErrorFirstOnly(opened) == IF opened = 0 THEN 1 ELSE opened

_onError(opened) == opened + 1

-----------------------------------------------------------------------------
(* The inputs: what the navigator and the store hand to the screen.        *)

\* What the navigator and the store hand to the screen: locationHref and
\* collabServerUrl as mapStateToProps reads them ('' when the store has no
\* location URL), and route.params.  Absent route parameters read undefined,
\* as every route.params?.x does on a route without parameters.
SessionOf(href, storeServerUrl, serverUrl, details, name) ==
    [locationHref |-> href,
     collabServerUrl |-> storeServerUrl,
     route |-> [collabServerUrl |-> serverUrl, collabDetails |-> details,
                localParticipantName |-> name]]

Here == <<"h", "/">>

Room == CollabDetailsOf(<<"r">>, <<"k">>)

Sessions ==
    { SessionOf(Here, <<"s">>, Undefined, NoCollabDetails, Undefined),
      SessionOf(Here, <<"s">>, <<"s">>, NoCollabDetails, <<"n">>),
      SessionOf(Here, <<"s">>, <<"s">>, Room, Undefined),
      SessionOf(Here, <<"s", "A">>, <<"s", "%", "4", "1">>, NoCollabDetails,
                <<"n">>),
      SessionOf(Here, <<"s">>, <<"s", "A">>, NoCollabDetails, <<"n">>),
      SessionOf(Here, Undefined, <<"s">>, Room, <<"A", "%", "2", "0", "n">>),
      SessionOf(Here, <<"s">>, <<"s", "%">>, Room, <<"n">>),
      SessionOf(Here, Undefined, EmptyStr, NoCollabDetails, <<"n">>),
      SessionOf(EmptyStr, <<"s">>, <<"s">>, NoCollabDetails, <<"n">>) }

Conferences == {NoConference, TheConference}

\* The URLs the embedded surface asks to navigate to: the loaded one, the
\* one the guard computes, and variations of them.
External == <<"x", "/">>

OtherScheme(u) == IF u = <<>> THEN u ELSE <<"z">> \o Tail(u)

RequestUrls(p, uri) ==
    ({uri, GuardUri(p), uri \o <<"/">>, uri \o <<"&", "q">>, OtherScheme(uri),
      External, EmptyStr}) \ {Undefined}

NoNav == [asked |-> FALSE, url |-> EmptyStr, result |-> FALSE]

-----------------------------------------------------------------------------
(* The screen as a state machine.                                          *)

Init ==
    /\ \E session \in Sessions, conference \in Conferences :
          props = [locationHref |-> session.locationHref,
                   collabServerUrl |-> session.collabServerUrl,
                   route |-> session.route,
                   conference |-> conference]
    /\ sourceUri = render(props)
    /\ uriAtMount = sourceUri
    /\ nav = NoNav
    /\ msgs = <<>>
    /\ calls = <<>>
    /\ host = NoHostDetails
    /\ dialogs = 0
    /\ loadErrors = 0

\* onShouldStartLoadWithRequest: the embedded surface asks to navigate.
NavigateOpensDialog(url) ==
    /\ nav' = [asked |-> TRUE, url |-> url, result |-> _onNavigate(url, props)]
    /\ dialogs' = IF _onNavigate(url, props) THEN dialogs ELSE dialogs + 1
    /\ UNCHANGED <<props, sourceUri, uriAtMount, msgs, calls, host,
                   loadErrors>>

Navigate(url) ==
    /\ nav' = [asked |-> TRUE, url |-> url, result |-> _onNavigate(url, props)]
    /\ UNCHANGED <<props, sourceUri, uriAtMount, msgs, calls, host, dialogs,
                   loadErrors>>

\* onMessage: the embedded surface posts a payload.
Message(data) ==
    /\ Len(msgs) < MaxMessages
    /\ LET r == _onMessage(calls, Len(msgs) + 1, props, data)
       IN  /\ calls' = r.calls
           /\ host' = Reduce(host, SubSeq(r.calls, Len(calls) + 1, Len(r.calls)))
           /\ msgs' = Append(msgs, [data |-> data, threw |-> r.threw,
                                    conference |-> props.conference])
    /\ UNCHANGED <<props, sourceUri, uriAtMount, nav, dialogs,
                   loadErrors>>

\* onError: the embedded surface failed to load.
LoadError ==
    /\ loadErrors < MaxLoadErrors
    /\ loadErrors' = loadErrors + 1
    /\ dialogs' = _onError(dialogs)
    /\ UNCHANGED <<props, sourceUri, uriAtMount, nav, msgs, calls,
                   host>>

\* The store gains or loses the current conference: the connected screen
\* gets the new prop and renders again.
ConferenceChanged ==
    /\ props' = [props EXCEPT !.conference =
                    IF @ = NoConference THEN TheConference ELSE NoConference]
    /\ sourceUri' = render(props')
    /\ UNCHANGED <<uriAtMount, nav, msgs, calls, host, dialogs, loadErrors>>

Next ==
    \/ \E url \in RequestUrls(props, sourceUri) : Navigate(url)
    \/ \E data \in Payloads : Message(data)
    \/ LoadError
    \/ ConferenceChanged

Spec == Init /\ [][Next]_vars

-----------------------------------------------------------------------------
(* What the claims speak about.                                            *)

IsCommit(c) == c.op = "setupWhiteboard"

IsPublish(c) == c.op = "setMetadata"

Commits == SelectSeq(calls, IsCommit)

Publishes == SelectSeq(calls, IsPublish)

\* The payload parses and carries a non-empty roomId and a non-empty roomKey.
ValidPayload(data) ==
    LET parsed == JSONParse(data)
    IN  /\ ~parsed.threw
        /\ parsed.value.kind = "object"
        /\ parsed.value.roomId.t = "string" /\ parsed.value.roomId.v # ""
        /\ parsed.value.roomKey.t = "string" /\ parsed.value.roomKey.v # ""

ValidMessages == {i \in DOMAIN msgs : ValidPayload(msgs[i].data)}

ValidMessagesInConference ==
    {i \in ValidMessages : msgs[i].conference = TheConference}

CallsOf(i, op) == {j \in DOMAIN calls : calls[j].msg = i /\ calls[j].op = op}

\* The server URL the loaded session URI was resolved from.
SessionServerUrl == safeDecodeURIComponent(props.route.collabServerUrl)

-----------------------------------------------------------------------------
\* C1: the guard answers true for a requested URL only if that URL is
\* exactly the URI that render supplied as the source of the embedded
\* surface; for every other URL it answers false.
GuardAllowsOnlyLoadedUri ==
    (nav.asked /\ nav.result) => nav.url = sourceUri

\* C2: the URI the guard allows is the URI render loads, whatever the
\* session parameters (percent-encoded ones included): asked about the
\* loaded canonical URI of a resolved session, the guard answers true.
GuardAllowsLoadedUri ==
    (nav.asked /\ sourceUri # EmptyStr /\ nav.url = sourceUri) => nav.result

\* C3: the commits are exactly one per message that parses and has roomId
\* and roomKey truthy, each carrying that message's roomId and roomKey; a
\* message that does not parse or fails the gate causes no commit and no
\* broadcast.
BridgeSchemaGate ==
    /\ Len(Commits) = Cardinality(ValidMessages)
    /\ \A i \in ValidMessages :
          /\ Cardinality(CallsOf(i, "setupWhiteboard")) = 1
          /\ \A j \in CallsOf(i, "setupWhiteboard") :
                /\ calls[j].collabDetails.roomId
                      = JSONParse(msgs[i].data).value.roomId
                /\ calls[j].collabDetails.roomKey
                      = JSONParse(msgs[i].data).value.roomKey
    /\ \A j \in DOMAIN calls : calls[j].msg \in ValidMessages

BridgeSchemaGateWitness ==
    /\ Len(msgs) = 2
    /\ msgs[1].data = RawNoKey
    /\ msgs[2].data = RawBoth
    /\ Len(Commits) = 1
    /\ Commits[1].collabDetails.roomId = JSString("r1")
    /\ Commits[1].collabDetails.roomKey = JSString("k1")

\* C4: a message whose payload does not parse is discarded locally: the
\* handler returns normally, raising nothing to its caller.
MalformedMessageReturnsNormally ==
    \A i \in DOMAIN msgs : msgs[i].data = RawNotJson => ~msgs[i].threw

\* C5 (as claimed): every message that passes the gate is published once,
\* whether or not a current conference is known, so the publishes are as
\* many as the accepted messages.
EveryAcceptedMessagePublished ==
    Len(Publishes) = Cardinality(ValidMessages)

\* C5 (amended): every message that passes the gate while a current
\* conference is known is published once under the whiteboard topic key; one
\* accepted while no conference is known is committed and not published; so
\* the publishes are as many as the messages accepted in a conference.
AcceptedMessagePublishedInConference ==
    /\ Len(Publishes) = Cardinality(ValidMessagesInConference)
    /\ \A i \in ValidMessagesInConference :
          Cardinality(CallsOf(i, "setMetadata")) = 1
    /\ \A i \in ValidMessages \ ValidMessagesInConference :
          /\ CallsOf(i, "setMetadata") = {}
          /\ Cardinality(CallsOf(i, "setupWhiteboard")) = 1
    /\ \A j \in DOMAIN calls : IsPublish(calls[j]) => calls[j].key = WHITEBOARD_ID

AcceptedMessagePublishedWitness ==
    /\ Len(msgs) = 2
    /\ ValidMessages = {1, 2}
    /\ ValidMessagesInConference = {2}
    /\ Len(Publishes) = 1
    /\ Len(Commits) = 2

\* C6: the commit of an accepted message's credentials comes before the
\* publish of the same credentials; no publish precedes, or goes without,
\* the commit for its message.
CommitBeforeBroadcast ==
    \A j \in DOMAIN calls :
        IsPublish(calls[j]) =>
            \E i \in 1..(j - 1) :
                /\ IsCommit(calls[i])
                /\ calls[i].msg = calls[j].msg
                /\ calls[i].collabDetails = calls[j].collabDetails

CommitBeforeBroadcastWitness ==
    /\ Len(calls) = 4
    /\ IsCommit(calls[1]) /\ IsPublish(calls[2])
    /\ IsCommit(calls[3]) /\ IsPublish(calls[4])
    /\ calls[3].msg = 2 /\ calls[4].msg = 2

\* C7 (as claimed): the surface was loaded from session parameters with
\* server URL S and the latest message is valid with credentials C: the
\* store holds C and the metadata channel received, for that message, a
\* record with collabServerUrl = S and collabDetails = C.
CredentialsPropagateWithSessionServer ==
    (sourceUri # EmptyStr /\ msgs # <<>> /\ Len(msgs) \in ValidMessages) =>
        LET C == JSONParse(msgs[Len(msgs)].data).value
        IN  /\ host = C
            /\ \E j \in CallsOf(Len(msgs), "setMetadata") :
                  /\ calls[j].collabServerUrl = SessionServerUrl
                  /\ calls[j].collabDetails = C

\* C7 (amended): in the same situation the store holds C and, if a current
\* conference was known when the message came, the metadata channel
\* received for it one record with collabDetails = C and collabServerUrl
\* equal to the collabServerUrl prop mapped from the store (not the route
\* parameter the session URI was resolved from); with no conference known
\* nothing was published for it.
CredentialsPropagateWithStoreServer ==
    (sourceUri # EmptyStr /\ msgs # <<>> /\ Len(msgs) \in ValidMessages) =>
        LET C == JSONParse(msgs[Len(msgs)].data).value
            published == CallsOf(Len(msgs), "setMetadata")
        IN  /\ host = C
            /\ IF msgs[Len(msgs)].conference = TheConference
               THEN /\ Cardinality(published) = 1
                    /\ \A j \in published :
                          /\ calls[j].collabServerUrl = props.collabServerUrl
                          /\ calls[j].collabDetails = C
               ELSE published = {}

CredentialsPropagateWitness ==
    /\ sourceUri # EmptyStr
    /\ Len(msgs) = 1
    /\ msgs[1].data = RawBoth
    /\ msgs[1].conference = TheConference
    /\ host = JSONParse(RawBoth).value
    /\ props.collabServerUrl # SessionServerUrl
    /\ Len(Publishes) = 1
    /\ Publishes[1].collabServerUrl = props.collabServerUrl

\* C8: the error dialogs opened are as many as the load-error events
\* received; navigation, messages and an unresolvable session open none.
DialogPerLoadError == dialogs = loadErrors

DialogPerLoadErrorWitness ==
    /\ loadErrors = 2
    /\ dialogs = 2
    /\ sourceUri = EmptyStr
    /\ nav.asked /\ ~nav.result
    /\ Len(msgs) = 2
    /\ ValidMessages = {1}

\* C9: the source handed to the embedded surface is a non-empty URI or the
\* empty string, never undefined and never an error, and every render of
\* the same inputs yields the same URI.
SourceUriTotal ==
    /\ sourceUri # Undefined
    /\ sourceUri # URIError
    /\ \A i \in DOMAIN sourceUri :
          sourceUri[i] \notin {Undefined[1], URIError[1]}
    /\ sourceUri = uriAtMount

SourceUriSentinelWitness ==
    /\ sourceUri = EmptyStr
    /\ GuardUri(props) = Undefined
    /\ Len(msgs) = 2
    /\ msgs[1].conference # msgs[2].conference

\* A message step that delivers again the valid message delivered last.
Redelivery ==
    /\ msgs # <<>>
    /\ Len(msgs) \in ValidMessages
    /\ Len(msgs') = Len(msgs) + 1
    /\ msgs'[Len(msgs')].data = msgs[Len(msgs)].data

PublishCount(log) == Cardinality({j \in DOMAIN log : IsPublish(log[j])})

\* C10 (as claimed): delivering the same valid message again leaves the
\* committed credentials as they were after the first delivery and adds
\* one publish per delivery.
RedeliveryRepublishes ==
    [][Redelivery =>
          /\ host' = host
          /\ PublishCount(calls') = PublishCount(calls) + 1]_vars

\* C10 (amended): delivering the same valid message again leaves the
\* committed credentials as they were after the first delivery; it adds one
\* publish per delivery made while a current conference is known and none
\* otherwise.
RedeliveryRepublishesInConference ==
    [][Redelivery =>
          /\ host' = host
          /\ host' = JSONParse(msgs[Len(msgs)].data).value
          /\ PublishCount(calls') =
                PublishCount(calls)
                + (IF props.conference = TheConference THEN 1 ELSE 0)]_vars

RedeliveryWitness ==
    /\ Len(msgs) = 2
    /\ msgs[1].data = RawBothExtra
    /\ msgs[2].data = RawBothExtra
    /\ msgs[1].conference = TheConference
    /\ msgs[2].conference = TheConference
    /\ host = JSONParse(RawBothExtra).value
    /\ Len(Publishes) = 2
    /\ Len(Commits) = 2

\* C11: the record committed to the store and published to the metadata
\* channel for an accepted message carries only the validated roomId and
\* roomKey: no other field of the parsed payload reaches either sink.
OnlyValidatedFieldsForwarded ==
    /\ host.extra = JSUndefined
    /\ \A j \in DOMAIN calls : calls[j].collabDetails.extra = JSUndefined

\* C12: handling a navigation event, allowed or blocked, leaves the
\* committed credentials, the calls made on the store and the metadata
\* channel, and the number of dialogs opened as they were.
NavigationHasNoEffect ==
    [][nav' # nav =>
          /\ host' = host
          /\ calls' = calls
          /\ dialogs' = dialogs]_vars

NavigationHasNoEffectWitness ==
    /\ nav.asked
    /\ ~nav.result
    /\ nav.url = External
    /\ host = JSONParse(RawBoth).value
    /\ Len(Publishes) = 1
    /\ dialogs = 1

\* C13: for fixed route parameters and location, the decision the guard
\* gave for a URL is the decision it gives for that URL after any
\* interleaving of accepted messages, rejected messages and load errors:
\* credentials accepted over the message channel never change the URI the
\* guard allows.
GuardDecisionStable ==
    nav.asked => nav.result = _onNavigate(nav.url, props)

GuardDecisionStableWitness ==
    /\ nav.asked
    /\ nav.result
    /\ Len(msgs) = 2
    /\ Cardinality(ValidMessages) = 1
    /\ host # NoHostDetails
    /\ Len(Publishes) = 1
    /\ loadErrors = 1

\* C14: when the session is unresolvable (the resolver yields no URI and
\* render loads the empty string), the guard answers false for every
\* requested URL, the empty string included.
UnresolvableAdmitsNothing ==
    (sourceUri = EmptyStr /\ nav.asked) => ~nav.result

UnresolvableAdmitsNothingWitness ==
    /\ sourceUri = EmptyStr
    /\ renderNoSentinel(props) = Undefined
    /\ nav.asked
    /\ nav.url = EmptyStr
    /\ ~nav.result

====
